---- MODULE Spec2Model ----
(***************************************************************************)
(* PedaRAGy: the semantic cache (app/vector_store/semantic_cache.py), the  *)
(* retrieval engine (app/vector_store/search.py), the Pinecone client      *)
(* wrapper (app/vector_store/pinecone_client.py), the chunker              *)
(* (app/preprocessing/chunker.py) and the /ask/, /add_data/ and            *)
(* /cache/clear handlers (app/main.py), over a hosted vector index.        *)
(* Scores are in hundredths (100 = cosine 1.0).                            *)
(***************************************************************************)
EXTENDS Integers, Sequences, FiniteSets, TLC

VARIABLES
    indexes,               \* names of the indexes that exist at the backend
    cacheVecs,             \* vectors of index "semantic-cache", namespace "default"
    docVecs,               \* vectors of index "pedaragy-documents", namespace "default"
    cacheIndex,            \* semantic_cache.pinecone_client.index
    searchIndex,           \* semantic_search.pinecone_client.index
    similarity_threshold,  \* semantic_cache.similarity_threshold
    clock,                 \* what datetime.now() returns
    workers,               \* the worker threads of the server
    budget,                \* how many more /ask/ requests the run accepts
    req,                   \* per worker thread: the /ask/ request it is handling
    clearResult,           \* the last /cache/clear request: what it returned
    chunking,              \* a text on its way through the chunker into documents
    pinecone,              \* the backend as a PineconeClient sees it: name -> index
    client_index,          \* pinecone_client.index of the client under call
    call,                  \* the PineconeClient call in flight, or the last one
    uploads,               \* how many more /add_data/ requests the run accepts
    addResult,             \* the last /add_data/ request: what it returned
    searchResult,          \* the last semantic_search.search call: what it returned
    statsResult            \* the last /cache/stats request: what it returned

appVars == <<indexes, cacheVecs, docVecs, cacheIndex, searchIndex,
             similarity_threshold, clock, workers, budget, req, clearResult>>

chunkerVars == <<chunking>>

clientVars == <<pinecone, client_index, call>>

ingestVars == <<uploads, addResult, searchResult>>

statsVars == <<statsResult>>

vars == <<appVars, chunkerVars, clientVars, ingestVars, statsVars>>

----------------------------------------------------------------------------
(* Bounds and input sets *)

\* Requests accepted in a run of the one-worker server.
MaxAsks == 2

\* Requests accepted in a run of the two-worker server.
MaxConcurrentAsks == 2

Modes == {"explain", "quiz", "quiz_explain"}

Prompts == {"a", "a_quiz", "z"}

\* The (prompt, mode) pairs the requests of the model carry.
Requests ==
    { <<"a", "explain">>, <<"a", "quiz">>, <<"a", "quiz_explain">>,
      <<"a_quiz", "explain">>, <<"z", "explain">> }

Responses == {"r1", "r2"}

Thresholds == {90, 95, 100}

None == [tag |-> "None"]

NoIndex == "None"

----------------------------------------------------------------------------
(* Program constants *)

\* Mutant: the cache is given the index of the documents.
cache_index_name_shared == "pedaragy-documents"

\* SemanticCache.__init__: self.cache_index_name
cache_index_name == "semantic-cache"

documents_index_name == "pedaragy-documents"

DefaultThreshold == 95

SearchTopK == 3

SearchMinScore == 0

CacheTopK == 1

\* The methods class PineconeClient defines.
PineconeClientMethods ==
    { "create_index", "connect_to_index", "upsert_vectors", "upsert_documents",
      "search", "delete_vectors", "get_index_stats", "list_namespaces" }

----------------------------------------------------------------------------
(* The embedding model and the index's cosine score *)

\* EmbeddingModel.embed_text: a deterministic vector per text.
embed_text(text) == <<"emb", text>>

\* Cosine similarity of two texts' embeddings, in hundredths; 95 is the
\* configured threshold itself, so "a" and "a_quiz" sit exactly on it.
TextScore(s, t) ==
    IF s = t THEN 100
    ELSE CASE {s, t} = {"a", "a_quiz"}           -> 95
           [] {s, t} = {"a", "Chapter1 a"}       -> 80
           [] {s, t} = {"a", "Chapter2 a"}       -> 60
           [] {s, t} = {"a", "Chapter3 a"}       -> 60
           [] {s, t} = {"a_quiz", "Chapter1 a"}  -> 70
           [] {s, t} = {"a_quiz", "Chapter2 a"}  -> 75
           [] {s, t} = {"a", "z"}                -> 50
           [] {s, t} = {"a_quiz", "z"}           -> 50
           [] OTHER                              -> 20

CosineScore(u, v) == TextScore(u[2], v[2])

----------------------------------------------------------------------------
(* The hosted index: query and upsert *)

Min(a, b) == IF a < b THEN a ELSE b

Range(s) == { s[i] : i \in 1..Len(s) }

Match(v, qv) == [id |-> v.id, score |-> CosineScore(v.values, qv), metadata |-> v.metadata]

\* index.query: the rankings the index may return for query vector qv: the
\* top_k vectors of the namespace by descending score, ties in any order.
IndexQuery(vecs, qv, top_k) ==
    LET M == { Match(v, qv) : v \in vecs }
        n == Min(top_k, Cardinality(M))
    IN { s \in [1..n -> M] :
            /\ \A i, j \in 1..n : i < j => s[i] # s[j] /\ s[i].score >= s[j].score
            /\ \A m \in M \ Range(s) : n > 0 /\ m.score <= s[n].score }

\* The vectors of the index a handle stands for.
VecsOf(index, cache_vecs, doc_vecs) ==
    IF index = "semantic-cache" THEN cache_vecs
    ELSE IF index = "pedaragy-documents" THEN doc_vecs
    ELSE {}

\* index.upsert: the vector replaces the one with the same id, or is added.
IndexUpsert(vecs, vector) == { v \in vecs : v.id # vector.id } \cup {vector}

----------------------------------------------------------------------------
(* PineconeClient *)

\* PineconeClient.search: [] when no index is connected or the query raises,
\* the index's matches otherwise.
PineconeSearch(index, ok, ranking) ==
    IF index = NoIndex THEN <<>>
    ELSE IF ~ok THEN <<>>
    ELSE ranking

\* Mutant: every vector is stamped, over a timestamp it brings too.
StampTimestamp_always(vector, now) ==
    IF "metadata" \notin DOMAIN vector
    THEN vector @@ [metadata |-> [timestamp |-> now]]
    ELSE [vector EXCEPT !.metadata = [timestamp |-> now] @@ vector.metadata]

\* The timestamp loop of upsert_vectors: a vector without metadata gets an
\* empty one, and metadata without a timestamp gets the time of the call.
StampTimestamp(vector, now) ==
    IF "metadata" \notin DOMAIN vector
    THEN vector @@ [metadata |-> [timestamp |-> now]]
    ELSE IF "timestamp" \in DOMAIN vector.metadata
    THEN vector
    ELSE [vector EXCEPT !.metadata = vector.metadata @@ [timestamp |-> now]]

\* PineconeClient.upsert_vectors on one vector: what it returns and the
\* namespace afterwards.
upsert_vectors(index, vecs, vector, now, ok) ==
    IF index = NoIndex THEN [ret |-> FALSE, vecs |-> vecs]
    ELSE IF ~ok THEN [ret |-> FALSE, vecs |-> vecs]
    ELSE [ret |-> TRUE, vecs |-> IndexUpsert(vecs, StampTimestamp(vector, now))]

----------------------------------------------------------------------------
(* SemanticCache *)

\* hashlib.md5 of the content string, taken as collision-free.
md5(content) == "md5:" \o content

_generate_query_hash(prompt, mode) == md5(prompt \o "_" \o mode)

_generate_cache_id(prompt, mode) == "cache_" \o _generate_query_hash(prompt, mode)

\* dict.get(key, default)
Get(d, key, default) == IF key \in DOMAIN d THEN d[key] ELSE default

\* Mutant: the hit carries the entry's context as its response.
HitOf_context(match) ==
    [context          |-> Get(match.metadata, "context", ""),
     response         |-> Get(match.metadata, "context", ""),
     similarity_score |-> match.score,
     cached_at        |-> Get(match.metadata, "cached_at", ""),
     original_query   |-> Get(match.metadata, "original_query", "")]

\* The hit dict get_cached_response builds from a match.
HitOf(match) ==
    [context          |-> Get(match.metadata, "context", ""),
     response         |-> Get(match.metadata, "response", ""),
     similarity_score |-> match.score,
     cached_at        |-> Get(match.metadata, "cached_at", ""),
     original_query   |-> Get(match.metadata, "original_query", "")]

\* Mutant: the mode check left out (caching across modes).
get_cached_response_anymode(results, mode, threshold) ==
    IF Len(results) > 0 /\ results[1].score >= threshold THEN HitOf(results[1]) ELSE None

\* Mutant: a score equal to the threshold is not a hit.
get_cached_response_strict(results, mode, threshold) ==
    IF Len(results) > 0 /\ results[1].score > threshold
       /\ Get(results[1].metadata, "mode", "None") = mode
    THEN HitOf(results[1]) ELSE None

\* Mutant: the threshold comparison reversed.
get_cached_response_reversed(results, mode, threshold) ==
    IF Len(results) > 0 /\ results[1].score <= threshold
       /\ Get(results[1].metadata, "mode", "None") = mode
    THEN HitOf(results[1]) ELSE None

\* get_cached_response after the query: the hit dict, or None.
get_cached_response(results, mode, threshold) ==
    IF Len(results) > 0
    THEN LET match == results[1]
             similarity_score == match.score
             metadata == match.metadata
         IN IF similarity_score >= threshold
            THEN IF Get(metadata, "mode", "None") = mode
                 THEN HitOf(match)
                 ELSE None
            ELSE None
    ELSE None

\* Mutant: the response takes part in the cache id.
CacheVector_response_id(prompt, mode, context, response, now) ==
    [id       |-> _generate_cache_id(prompt, mode \o "_" \o response),
     values   |-> embed_text(prompt),
     metadata |-> [original_query |-> prompt,
                   mode           |-> mode,
                   context        |-> context,
                   response       |-> response,
                   cached_at      |-> now,
                   query_hash     |-> _generate_query_hash(prompt, mode)]]

\* The vector store_response builds for the upsert.
CacheVector(prompt, mode, context, response, now) ==
    [id       |-> _generate_cache_id(prompt, mode),
     values   |-> embed_text(prompt),
     metadata |-> [original_query |-> prompt,
                   mode           |-> mode,
                   context        |-> context,
                   response       |-> response,
                   cached_at      |-> now,
                   query_hash     |-> _generate_query_hash(prompt, mode)]]

----------------------------------------------------------------------------
(* SemanticSearch *)

\* The result dict the enhance loop builds.
Enhanced(result) ==
    [id                   |-> result.id,
     score                |-> result.score,
     text                 |-> Get(result.metadata, "text", ""),
     metadata             |-> result.metadata,
     relevance_percentage |-> result.score]

\* Mutant: a score equal to min_score is dropped.
RECURSIVE Enhance_strict(_, _)
Enhance_strict(results, min_score) ==
    IF results = <<>> THEN <<>>
    ELSE IF Head(results).score > min_score
         THEN <<Enhanced(Head(results))>> \o Enhance_strict(Tail(results), min_score)
         ELSE Enhance_strict(Tail(results), min_score)

\* Mutant: each kept result goes to the front of the list.
RECURSIVE Enhance_prepend(_, _)
Enhance_prepend(results, min_score) ==
    IF results = <<>> THEN <<>>
    ELSE IF Head(results).score >= min_score
         THEN Enhance_prepend(Tail(results), min_score) \o <<Enhanced(Head(results))>>
         ELSE Enhance_prepend(Tail(results), min_score)

\* The enhance loop of SemanticSearch.search: keeps, in order, the results
\* whose score reaches min_score.
RECURSIVE Enhance(_, _)
Enhance(results, min_score) ==
    IF results = <<>> THEN <<>>
    ELSE LET result == Head(results)
             rest == Enhance(Tail(results), min_score)
         IN IF result.score >= min_score
            THEN <<Enhanced(result)>> \o rest
            ELSE rest

\* "\n\n".join of the chunks' texts (ask_prompt, step 3).
RECURSIVE JoinTexts(_)
JoinTexts(chunks) ==
    IF chunks = <<>> THEN ""
    ELSE IF Len(chunks) = 1 THEN chunks[1].text
    ELSE chunks[1].text \o "\n\n" \o JoinTexts(Tail(chunks))

\* SemanticSearch.search: [] when the embedding or the query raises, the
\* enhanced results otherwise.
search(embOk, index, ok, ranking, min_score) ==
    IF ~embOk THEN <<>>
    ELSE Enhance(PineconeSearch(index, ok, ranking), min_score)

----------------------------------------------------------------------------
(* Chunker: strings are sequences of characters; a word that holds neither  *)
(* whitespace nor a delimiter may stand as one character.                   *)

\* Longest text the chunker is given, in characters.
MaxTextLen == 4

Alphabet == {"C", "h", " ", "x"}

\* The characters str.strip() removes.
Whitespace == {" ", "\n", "\t"}

\* The text of the specification's chunker scenario, "Chapter 1 intro Chapter 2 body".
ScenarioText ==
    <<"Chapter", " ", "1", " ", "intro", " ", "Chapter", " ", "2", " ", "body">>

\* The default delimiter of chunk_by_chapter.
ChapterDelimiter == <<"Chapter">>

Texts == UNION { [1..n -> Alphabet] : n \in 0..MaxTextLen } \cup {ScenarioText}

Delimiters == { <<"C">>, <<"C", "h">>, ChapterDelimiter }

FileNames == {"book.pdf"}

\* The Python string a character sequence stands for.
RECURSIVE Str(_)
Str(s) == IF s = <<>> THEN "" ELSE Head(s) \o Str(Tail(s))

\* str.split(sep), scanning left to right; cur is the segment being read.
RECURSIVE SplitFrom(_, _, _)
SplitFrom(text, sep, cur) ==
    IF Len(text) < Len(sep) THEN <<cur \o text>>
    ELSE IF SubSeq(text, 1, Len(sep)) = sep
         THEN <<cur>> \o SplitFrom(SubSeq(text, Len(sep) + 1, Len(text)), sep, <<>>)
         ELSE SplitFrom(Tail(text), sep, Append(cur, Head(text)))

split(text, sep) == SplitFrom(text, sep, <<>>)

RECURSIVE lstrip(_)
lstrip(s) == IF s # <<>> /\ Head(s) \in Whitespace THEN lstrip(Tail(s)) ELSE s

RECURSIVE rstrip(_)
rstrip(s) ==
    IF s # <<>> /\ s[Len(s)] \in Whitespace THEN rstrip(SubSeq(s, 1, Len(s) - 1)) ELSE s

strip(s) == rstrip(lstrip(s))

\* The loop of chunk_by_chapter over the segments.
RECURSIVE ChunkLoop(_, _)
ChunkLoop(chapters, delimiter) ==
    IF chapters = <<>> THEN <<>>
    ELSE LET chapter == Head(chapters)
             rest == ChunkLoop(Tail(chapters), delimiter)
         IN IF strip(chapter) # <<>>
            THEN <<delimiter \o strip(chapter)>> \o rest
            ELSE rest

\* Mutant: a blank segment gives a chunk too.
chunk_by_chapter_keep_blank(text, delimiter) ==
    LET chapters == split(text, delimiter)
    IN [i \in 1..Len(chapters) |-> delimiter \o strip(chapters[i])]

\* Chunker.chunk_by_chapter.
chunk_by_chapter(text, delimiter) == ChunkLoop(split(text, delimiter), delimiter)

\* os.path.basename of a path, a path being the sequence of its components.
basename(file_path) == file_path[Len(file_path)]

\* add_file: the documents of one file's chunks.
FileDocuments(file_name, file_path, chunks) ==
    [i \in 1..Len(chunks) |->
        [id       |-> file_name \o "_" \o ToString(i - 1),
         text     |-> Str(chunks[i]),
         metadata |-> [chunk_index  |-> i - 1,
                       chunk_method |-> "chapter",
                       source       |-> file_name,
                       file_path    |-> file_path]]]

\* No text is with the chunker.
NoChunking ==
    [pc |-> "idle", file_name |-> "", text |-> <<>>, delimiter |-> <<>>,
     chunks |-> <<>>, file_documents |-> <<>>]

----------------------------------------------------------------------------
(* PineconeClient against the backend: an index is a record of its name,    *)
(* whether it is ready, its dimension and the vectors of namespace          *)
(* "default".                                                               *)

\* Calls a run of the client makes.
MaxCalls == 3

\* Sleeps of the create_index loop the model counts; further ones change nothing.
MaxWait == 3

\* The dimension create_index is called with (384), scaled down.
Dimension == 2

VectorLengths == {Dimension, Dimension + 1}

IndexNames == {documents_index_name, cache_index_name}

VectorIds == {"v1", "v2"}

\* The vectors a caller hands to upsert_vectors: with metadata, with a
\* timestamp of its own in it, or without metadata.
InputVectors ==
    { [id |-> i, values |-> [k \in 1..n |-> 1], metadata |-> m] :
        i \in VectorIds, n \in VectorLengths,
        m \in { [source |-> "s"], [source |-> "s", timestamp |-> 0 - 1] } }
      \cup { [id |-> i, values |-> [k \in 1..Dimension |-> 1]] : i \in VectorIds }

\* The id lists a caller hands to delete_vectors.
IdLists == { <<"v1">>, <<"v2">>, <<"v1", "v2">> }

\* The lists of one or two vectors of distinct ids.
Batches ==
    { <<v>> : v \in InputVectors }
      \cup { <<v, w>> : v \in { x \in InputVectors : x.id = "v1" },
                        w \in { x \in InputVectors : x.id = "v2" } }

\* pc.list_indexes().names()
list_indexes(idxs) == { i.name : i \in idxs }

IndexNamed(idxs, name) == CHOOSE i \in idxs : i.name = name

\* The backend's create_index: a new index, not ready yet; a name in use is
\* refused.
BackendCreate(idxs, name, dimension) ==
    IF name \in list_indexes(idxs)
    THEN [raised |-> TRUE, idxs |-> idxs]
    ELSE [raised |-> FALSE,
          idxs |-> idxs \cup {[name |-> name, ready |-> FALSE,
                                dimension |-> dimension, vecs |-> {}]}]

RECURSIVE UpsertAll(_, _)
UpsertAll(vecs, vectors) ==
    IF vectors = <<>> THEN vecs
    ELSE UpsertAll(IndexUpsert(vecs, Head(vectors)), Tail(vectors))

\* index.upsert(vectors=...): one request, which the backend refuses as a
\* whole when the index is not ready or a vector has not the index's dimension.
IndexUpsertRequest(index, vectors) ==
    IF ~index.ready \/ \E i \in 1..Len(vectors) : Len(vectors[i].values) # index.dimension
    THEN [raised |-> TRUE, vecs |-> index.vecs]
    ELSE [raised |-> FALSE, vecs |-> UpsertAll(index.vecs, vectors)]

\* The backend after the vectors of index `name` became vecs.
WithVecs(idxs, name, vecs) ==
    { IF i.name = name THEN [i EXCEPT !.vecs = vecs] ELSE i : i \in idxs }

\* The vectors before the first one the index refuses.
RECURSIVE AcceptedPrefix(_, _)
AcceptedPrefix(index, vectors) ==
    IF vectors = <<>> \/ IndexUpsertRequest(index, <<Head(vectors)>>).raised
    THEN <<>>
    ELSE <<Head(vectors)>> \o AcceptedPrefix(index, Tail(vectors))

\* Mutant: one request per vector, so the vectors before a refused one stay.
upsert_vectors_list_one_by_one(idxs, handle, vectors, now, ok) ==
    IF handle = NoIndex THEN [ret |-> FALSE, idxs |-> idxs]
    ELSE IF ~ok \/ handle \notin list_indexes(idxs) THEN [ret |-> FALSE, idxs |-> idxs]
    ELSE LET stamped == [i \in 1..Len(vectors) |-> StampTimestamp(vectors[i], now)]
             index == IndexNamed(idxs, handle)
             accepted == AcceptedPrefix(index, stamped)
         IN [ret |-> Len(accepted) = Len(stamped),
             idxs |-> WithVecs(idxs, handle, UpsertAll(index.vecs, accepted))]

\* PineconeClient.upsert_vectors on a list of vectors: what it returns and the
\* backend afterwards.
upsert_vectors_list(idxs, handle, vectors, now, ok) ==
    IF handle = NoIndex THEN [ret |-> FALSE, idxs |-> idxs]
    ELSE IF ~ok \/ handle \notin list_indexes(idxs) THEN [ret |-> FALSE, idxs |-> idxs]
    ELSE LET stamped == [i \in 1..Len(vectors) |-> StampTimestamp(vectors[i], now)]
             r == IndexUpsertRequest(IndexNamed(idxs, handle), stamped)
         IN IF r.raised
            THEN [ret |-> FALSE, idxs |-> idxs]
            ELSE [ret |-> TRUE, idxs |-> WithVecs(idxs, handle, r.vecs)]

\* index.delete(ids=...): the vectors of these ids leave the namespace, an
\* id the namespace does not hold is passed over; an index that is not ready
\* refuses the request.
IndexDeleteRequest(index, vector_ids) ==
    IF ~index.ready
    THEN [raised |-> TRUE, vecs |-> index.vecs]
    ELSE [raised |-> FALSE,
          vecs |-> { v \in index.vecs : v.id \notin Range(vector_ids) }]

\* Mutant: the namespace is emptied, whatever the ids.
delete_vectors_all(idxs, handle, vector_ids, ok) ==
    IF handle = NoIndex THEN [ret |-> FALSE, idxs |-> idxs]
    ELSE IF ~ok \/ handle \notin list_indexes(idxs) THEN [ret |-> FALSE, idxs |-> idxs]
    ELSE [ret |-> TRUE, idxs |-> WithVecs(idxs, handle, {})]

\* PineconeClient.delete_vectors: what it returns and the backend afterwards.
delete_vectors(idxs, handle, vector_ids, ok) ==
    IF handle = NoIndex THEN [ret |-> FALSE, idxs |-> idxs]
    ELSE IF ~ok \/ handle \notin list_indexes(idxs) THEN [ret |-> FALSE, idxs |-> idxs]
    ELSE LET r == IndexDeleteRequest(IndexNamed(idxs, handle), vector_ids)
         IN IF r.raised
            THEN [ret |-> FALSE, idxs |-> idxs]
            ELSE [ret |-> TRUE, idxs |-> WithVecs(idxs, handle, r.vecs)]

\* Mutant: the handle is set and True returned whether or not the index exists.
connect_to_index_unchecked(idxs, handle, index_name, ok) ==
    IF ~ok THEN [ret |-> FALSE, index |-> handle]
    ELSE [ret |-> TRUE, index |-> index_name]

\* PineconeClient.connect_to_index: what it returns and self.index afterwards.
connect_to_index(idxs, handle, index_name, ok) ==
    IF ~ok THEN [ret |-> FALSE, index |-> handle]
    ELSE IF index_name \notin list_indexes(idxs) THEN [ret |-> FALSE, index |-> handle]
    ELSE [ret |-> TRUE, index |-> index_name]

\* No call has been made.
NoCall ==
    [op |-> "none", pc |-> "returned", at |-> 0, index_name |-> "", vectors |-> <<>>,
     vector_ids |-> <<>>, ok |-> TRUE, waited |-> 0, ret |-> FALSE]

----------------------------------------------------------------------------
(* Ingestion: /add_data/ *)

\* /add_data/ requests accepted in a run.
MaxUploads == 2

\* The files on disk: the path of each and the text the extractor reads.
BookFile ==
    [file_path |-> <<"a", "book.pdf">>,
     text |-> <<"Chapter", " ", "1", " ", "a", " ", "Chapter", " ", "2", " ", "a">>]

NotesFile ==
    [file_path |-> <<"a", "notes.pdf">>, text |-> <<"Chapter", " ", "3", " ", "a">>]

BlankFile == [file_path |-> <<"a", "blank.pdf">>, text |-> <<" ", "\n">>]

\* Another book, under the same file name in another directory.
BookCopy ==
    [file_path |-> <<"b", "book.pdf">>, text |-> <<"Chapter", " ", "3", " ", "a">>]

\* The file lists the /add_data/ requests carry; every file exists.
FileRequests == { <<BookFile>>, <<NotesFile>>, <<BlankFile>>, <<BookFile, NotesFile>> }

\* The same, and a request for the book of the other directory.
IngestRequests == FileRequests \cup { <<BookCopy>> }

\* add_file: all_documents, the documents of the files in order.
RECURSIVE AllDocuments(_)
AllDocuments(files) ==
    IF files = <<>> THEN <<>>
    ELSE FileDocuments(basename(Head(files).file_path), Head(files).file_path,
                       chunk_by_chapter(Head(files).text, ChapterDelimiter))
           \o AllDocuments(Tail(files))

\* EmbeddingModel.embed_texts
embed_texts(texts) == [i \in 1..Len(texts) |-> embed_text(texts[i])]

\* The vectors upsert_documents builds: the document's metadata over the
\* text and the timestamp.
DocumentVectors(documents, embeddings, now) ==
    [i \in 1..Len(documents) |->
        [id       |-> documents[i].id,
         values   |-> embeddings[i],
         metadata |-> documents[i].metadata
                        @@ [text |-> documents[i].text, timestamp |-> now]]]

\* PineconeClient.upsert_documents, and upsert_vectors on its list: what it
\* returns and the namespace afterwards.
upsert_documents(index, vecs, documents, embeddings, now, ok) ==
    IF Len(documents) # Len(embeddings) THEN [ret |-> FALSE, vecs |-> vecs]
    ELSE IF index = NoIndex THEN [ret |-> FALSE, vecs |-> vecs]
    ELSE IF ~ok THEN [ret |-> FALSE, vecs |-> vecs]
    ELSE LET vectors == DocumentVectors(documents, embeddings, now)
         IN [ret |-> TRUE,
             vecs |-> UpsertAll(vecs, [i \in 1..Len(vectors) |->
                                          StampTimestamp(vectors[i], now)])]

\* The documents a previous ingestion of book.pdf left in the documents index.
Corpus ==
    LET documents == AllDocuments(<<BookFile>>)
        embeddings == embed_texts([i \in 1..Len(documents) |-> documents[i].text])
    IN UpsertAll({}, DocumentVectors(documents, embeddings, 0))

NoAdd == [status |-> "none", total_chunks |-> 0, written |-> FALSE]

NoSearch ==
    [called |-> FALSE, top_k |-> 0, min_score |-> 0, index_results |-> <<>>,
     results |-> <<>>]

----------------------------------------------------------------------------
(* Requests *)

NoReply == [status |-> "none"]

NoClear == [ret |-> "none", reachable |-> TRUE]

NoStats == [ret |-> "none", reachable |-> TRUE]

\* A worker thread that handles no request.
IdleReq ==
    [pc              |-> "idle",
     prompt          |-> "",
     mode            |-> "",
     results         |-> <<>>,      \* what the cache index query returned
     lookupErr       |-> "none",    \* what failed inside get_cached_response
     cached_result   |-> None,
     relevant_chunks |-> <<>>,
     searchErr       |-> "none",    \* what failed inside semantic_search.search
     context         |-> "",
     llm_response    |-> "",
     vector          |-> None,      \* the vector store_response has built
     stored          |-> "none",    \* what store_response returned
     written         |-> FALSE,     \* whether the index took the upsert
     overwrote       |-> FALSE,     \* whether the upsert met an entry of the same pair
     trace           |-> <<>>,      \* the calls ask_prompt has made, in order
     reply           |-> NoReply]

\* What failed in a call that embeds and then uses the index.
Failure(embOk, index, ok) ==
    IF ~embOk THEN "embedding"
    ELSE IF index = NoIndex THEN "no_index"
    ELSE IF ~ok THEN "index"
    ELSE "none"

\* The state the module-level constructors of main.py leave: SemanticSearch is
\* connected (it raises otherwise), SemanticCache is connected unless the
\* backend failed throughout _ensure_cache_index.
Startup ==
    /\ indexes \in { {documents_index_name, cache_index_name}, {documents_index_name} }
    /\ cacheIndex \in {NoIndex, cache_index_name}
    /\ cacheIndex # NoIndex => cache_index_name \in indexes
    /\ searchIndex = documents_index_name
    /\ cacheVecs = {}
    /\ docVecs \in { {}, Corpus }
    /\ similarity_threshold = DefaultThreshold
    /\ clock = 0
    /\ clearResult = NoClear
    /\ chunking = NoChunking
    /\ pinecone = {}
    /\ client_index = NoIndex
    /\ call = NoCall
    /\ addResult = NoAdd
    /\ searchResult = NoSearch
    /\ statsResult = NoStats

Init ==
    /\ Startup
    /\ workers = {1}
    /\ budget = MaxAsks
    /\ uploads = 0
    /\ req = [t \in workers |-> IdleReq]

InitConcurrent ==
    /\ Startup
    /\ workers = {1, 2}
    /\ budget = MaxConcurrentAsks
    /\ uploads = 0
    /\ req = [t \in workers |-> IdleReq]

\* Mutant: the cached answer is not returned, the handler goes on.
AfterLookup_ignore_cache(cached_result) == "search"

\* ask_prompt, `if cached_result:` where the handler goes after the lookup.
AfterLookup(cached_result) == IF cached_result # None THEN "done" ELSE "search"

\* The reply of ask_prompt on a cache hit.
CachedReply(cached_result, mode) ==
    [status           |-> "ok",
     answer           |-> cached_result.response,
     mode             |-> mode,
     cached           |-> TRUE,
     similarity_score |-> cached_result.similarity_score,
     original_query   |-> cached_result.original_query]

\* The reply of ask_prompt after the store (step 8).
FreshReply(r) == [status |-> "ok", answer |-> r.llm_response, mode |-> r.mode, cached |-> FALSE]

\* ask_prompt, step 1: semantic_cache.get_cached_response(prompt, mode), and the
\* return of the cached answer on a hit. A request goes to the first idle worker.
AskLookup(t, q, m, embOk, ok) ==
    /\ req[t].pc = "idle"
    /\ \A u \in workers : u < t => req[u].pc # "idle"
    /\ budget > 0
    /\ <<q, m>> \in Requests
    /\ \E ranking \in IndexQuery(VecsOf(cacheIndex, cacheVecs, docVecs),
                                  embed_text(q), CacheTopK) :
         LET results == IF embOk THEN PineconeSearch(cacheIndex, ok, ranking) ELSE <<>>
             cached_result == IF embOk
                              THEN get_cached_response(results, m, similarity_threshold)
                              ELSE None
         IN req' = [req EXCEPT ![t] =
                [IdleReq EXCEPT
                    !.pc = AfterLookup(cached_result),
                    !.prompt = q,
                    !.mode = m,
                    !.results = results,
                    !.lookupErr = Failure(embOk, cacheIndex, ok),
                    !.cached_result = cached_result,
                    !.trace = <<"lookup">>,
                    !.reply = IF cached_result # None
                              THEN CachedReply(cached_result, m)
                              ELSE NoReply]]
    /\ budget' = budget - 1
    /\ clock' = clock + 1
    /\ UNCHANGED <<chunkerVars, clientVars, ingestVars, statsVars>>
    /\ UNCHANGED <<indexes, cacheVecs, docVecs, cacheIndex, searchIndex,
                   similarity_threshold, workers, clearResult>>

\* ask_prompt, steps 2 and 3: semantic_search.search(prompt) and the context.
AskSearch(t, embOk, ok) ==
    /\ req[t].pc = "search"
    /\ \E ranking \in IndexQuery(VecsOf(searchIndex, cacheVecs, docVecs),
                                  embed_text(req[t].prompt), SearchTopK) :
         LET relevant_chunks == search(embOk, searchIndex, ok, ranking, SearchMinScore)
         IN req' = [req EXCEPT ![t].pc = "generate",
                               ![t].results = <<>>,
                               ![t].lookupErr = "none",
                               ![t].relevant_chunks = relevant_chunks,
                               ![t].searchErr = Failure(embOk, searchIndex, ok),
                               ![t].context = JoinTexts(relevant_chunks),
                               ![t].trace = Append(@, "search")]
    /\ UNCHANGED <<chunkerVars, clientVars, ingestVars, statsVars>>
    /\ UNCHANGED <<indexes, cacheVecs, docVecs, cacheIndex, searchIndex,
                   similarity_threshold, clock, workers, budget, clearResult>>

\* Mutant: a failed generation is swallowed and the handler goes on to store.
AskGenerate_swallow(t, ok, response) ==
    /\ req[t].pc = "generate"
    /\ response \in Responses
    /\ req' = [req EXCEPT ![t].pc = "store",
                          ![t].relevant_chunks = <<>>,
                          ![t].llm_response = IF ok THEN response ELSE "",
                          ![t].trace = Append(@, "generate")]
    /\ UNCHANGED <<chunkerVars, clientVars, ingestVars, statsVars>>
    /\ UNCHANGED <<indexes, cacheVecs, docVecs, cacheIndex, searchIndex,
                   similarity_threshold, clock, workers, budget, clearResult>>

\* ask_prompt, step 6: return_response; a failure leaves the handler as an
\* exception.
AskGenerate(t, ok, response) ==
    /\ req[t].pc = "generate"
    /\ response \in Responses
    /\ req' = IF ok
              THEN [req EXCEPT ![t].pc = "store",
                               ![t].relevant_chunks = <<>>,
                               ![t].llm_response = response,
                               ![t].trace = Append(@, "generate")]
              ELSE [req EXCEPT ![t].pc = "done",
                               ![t].relevant_chunks = <<>>,
                               ![t].trace = Append(@, "generate"),
                               ![t].reply = [status |-> "error"]]
    /\ UNCHANGED <<chunkerVars, clientVars, ingestVars, statsVars>>
    /\ UNCHANGED <<indexes, cacheVecs, docVecs, cacheIndex, searchIndex,
                   similarity_threshold, clock, workers, budget, clearResult>>

\* ask_prompt, step 7, first half: store_response embeds the prompt and builds
\* the vector; an embedding failure makes it return False.
AskStore(t, embOk) ==
    /\ req[t].pc = "store"
    /\ req' = IF embOk
              THEN [req EXCEPT ![t].pc = "upsert",
                               ![t].vector = CacheVector(req[t].prompt, req[t].mode,
                                                 req[t].context, req[t].llm_response, clock),
                               ![t].trace = Append(@, "store")]
              ELSE [req EXCEPT ![t].pc = "done",
                               ![t].stored = "False",
                               ![t].trace = Append(@, "store"),
                               ![t].reply = FreshReply(req[t])]
    /\ UNCHANGED <<chunkerVars, clientVars, ingestVars, statsVars>>
    /\ UNCHANGED <<indexes, cacheVecs, docVecs, cacheIndex, searchIndex,
                   similarity_threshold, clock, workers, budget, clearResult>>

\* What store_response returns once the embedding succeeded: the value of
\* upsert_vectors is not looked at.
store_response_return(upserted) == "True"

\* The entries of the cache that carry the pair (prompt, mode).
EntriesOf(vecs, prompt, mode) ==
    { v \in vecs : /\ Get(v.metadata, "original_query", "") = prompt
                   /\ Get(v.metadata, "mode", "None") = mode }

\* ask_prompt, step 7, second half: upsert_vectors, the return of
\* store_response, and the reply.
AskUpsert(t, ok) ==
    /\ req[t].pc = "upsert"
    /\ LET vecs == VecsOf(cacheIndex, cacheVecs, docVecs)
           u == upsert_vectors(cacheIndex, vecs, req[t].vector, clock, ok)
       IN /\ cacheVecs' = IF cacheIndex = "semantic-cache" THEN u.vecs ELSE cacheVecs
          /\ docVecs' = IF cacheIndex = "pedaragy-documents" THEN u.vecs ELSE docVecs
          /\ req' = [req EXCEPT ![t].pc = "done",
                                ![t].stored = store_response_return(u.ret),
                                ![t].written = u.ret,
                                ![t].overwrote =
                                    u.ret /\ EntriesOf(vecs, req[t].prompt, req[t].mode) # {},
                                ![t].reply = FreshReply(req[t])]
    /\ UNCHANGED <<chunkerVars, clientVars, ingestVars, statsVars>>
    /\ UNCHANGED <<indexes, cacheIndex, searchIndex,
                   similarity_threshold, clock, workers, budget, clearResult>>

\* The handler returns and the thread takes the next request.
AskReturn(t) ==
    /\ req[t].pc = "done"
    /\ req' = [req EXCEPT ![t] = IdleReq]
    /\ UNCHANGED <<chunkerVars, clientVars, ingestVars, statsVars>>
    /\ UNCHANGED <<indexes, cacheVecs, docVecs, cacheIndex, searchIndex,
                   similarity_threshold, clock, workers, budget, clearResult>>

\* /cache/clear: clear_cache calls pinecone_client.delete_index, which class
\* PineconeClient does not define; the AttributeError is caught and False
\* returned, whether or not the backend can be reached.
ClearCache(reachable) ==
    /\ "delete_index" \notin PineconeClientMethods
    /\ clearResult' = [ret |-> "False", reachable |-> reachable]
    /\ UNCHANGED <<chunkerVars, clientVars, ingestVars, statsVars>>
    /\ UNCHANGED <<indexes, cacheVecs, docVecs, cacheIndex, searchIndex,
                   similarity_threshold, clock, workers, budget, req>>

\* /cache/stats: get_cache_stats calls pinecone_client.describe_index, which
\* class PineconeClient does not define; the AttributeError is caught and the
\* error dict returned, whether or not the backend can be reached.
CacheStats(reachable) ==
    /\ "describe_index" \notin PineconeClientMethods
    /\ statsResult' = [ret |-> "error", reachable |-> reachable]
    /\ UNCHANGED <<appVars, chunkerVars, clientVars, ingestVars>>

Next ==
    \/ \E t \in workers, q \in Prompts, m \in Modes, embOk \in BOOLEAN, ok \in BOOLEAN :
          AskLookup(t, q, m, embOk, ok)
    \/ \E t \in workers, embOk \in BOOLEAN, ok \in BOOLEAN : AskSearch(t, embOk, ok)
    \/ \E t \in workers, ok \in BOOLEAN, response \in Responses : AskGenerate(t, ok, response)
    \/ \E t \in workers, embOk \in BOOLEAN : AskStore(t, embOk)
    \/ \E t \in workers, ok \in BOOLEAN : AskUpsert(t, ok)
    \/ \E t \in workers : AskReturn(t)
    \/ \E reachable \in BOOLEAN : ClearCache(reachable)

\* The server with one worker thread: requests are handled one at a time.
Spec == Init /\ [][Next]_vars

\* The server with two worker threads: two requests may be in flight.
SpecConcurrent == InitConcurrent /\ [][Next]_vars

----------------------------------------------------------------------------
(* The server started over the cache an earlier run left *)

\* The cache index outlives the server: the entry an earlier run stored for
\* ("a", "quiz").
WarmCache == { StampTimestamp(CacheVector("a", "quiz", "", "r2", 0), 0) }

InitWarm ==
    /\ indexes = {documents_index_name, cache_index_name}
    /\ cacheIndex = cache_index_name
    /\ searchIndex = documents_index_name
    /\ cacheVecs \in { {}, WarmCache }
    /\ docVecs = Corpus
    /\ similarity_threshold = DefaultThreshold
    /\ clock = 0
    /\ clearResult = NoClear
    /\ chunking = NoChunking
    /\ pinecone = {}
    /\ client_index = NoIndex
    /\ call = NoCall
    /\ addResult = NoAdd
    /\ searchResult = NoSearch
    /\ statsResult = NoStats
    /\ workers = {1}
    /\ budget = MaxAsks
    /\ req = [t \in workers |-> IdleReq]
    /\ uploads = 0

NextWarm ==
    \/ Next
    \/ \E reachable \in BOOLEAN : CacheStats(reachable)

\* The one-worker server over an empty or a kept cache, with /cache/stats
\* requests among the /ask/ ones.
SpecWarm == InitWarm /\ [][NextWarm]_vars

----------------------------------------------------------------------------
(* Ingestion and retrieval *)

TopKs == {1, 2, 3}

MinScores == {0, 60, 70, 101}

\* /add_data/ for files that exist: the documents of the files' chunks, their
\* embeddings, and semantic_search.add_documents, whose value is not looked
\* at. The connect or create on main's own client leaves no trace here: the
\* documents index exists and add_documents goes through semantic_search's
\* handle. The request is taken by a worker thread that is idle.
AddFile(file_paths, embOk, ok) ==
    /\ uploads > 0
    /\ \E t \in workers : req[t].pc = "idle"
    /\ file_paths \in IngestRequests
    /\ uploads' = uploads - 1
    /\ clock' = clock + 1
    /\ LET all_documents == AllDocuments(file_paths)
           embeddings == embed_texts([i \in 1..Len(all_documents) |->
                                         all_documents[i].text])
           vecs == VecsOf(searchIndex, cacheVecs, docVecs)
           u == upsert_documents(searchIndex, vecs, all_documents, embeddings,
                                 clock + 1, ok)
       IN IF all_documents = <<>>
          THEN /\ addResult' = [NoAdd EXCEPT !.status = "no_documents"]
               /\ UNCHANGED <<cacheVecs, docVecs>>
          ELSE IF ~embOk
               THEN /\ addResult' = [NoAdd EXCEPT !.status = "error"]
                    /\ UNCHANGED <<cacheVecs, docVecs>>
               ELSE /\ addResult' = [status |-> "ok",
                                     total_chunks |-> Len(all_documents),
                                     written |-> u.ret]
                    /\ docVecs' = IF searchIndex = "pedaragy-documents"
                                  THEN u.vecs ELSE docVecs
                    /\ cacheVecs' = IF searchIndex = "semantic-cache"
                                    THEN u.vecs ELSE cacheVecs
    /\ UNCHANGED <<indexes, cacheIndex, searchIndex, similarity_threshold, workers,
                   budget, req, clearResult, searchResult, chunkerVars, clientVars,
                   statsVars>>

\* semantic_search.search(query, top_k, min_score=min_score)
SearchCall(query, top_k, min_score, embOk, ok) ==
    /\ \E ranking \in IndexQuery(VecsOf(searchIndex, cacheVecs, docVecs),
                                  embed_text(query), top_k) :
         searchResult' =
            [called        |-> TRUE,
             top_k         |-> top_k,
             min_score     |-> min_score,
             index_results |-> IF embOk THEN PineconeSearch(searchIndex, ok, ranking)
                               ELSE <<>>,
             results       |-> search(embOk, searchIndex, ok, ranking, min_score)]
    /\ UNCHANGED <<appVars, chunkerVars, clientVars, uploads, addResult, statsVars>>

InitSearch ==
    /\ Startup
    /\ docVecs = {}
    /\ cacheIndex = cache_index_name
    /\ workers = {1}
    /\ budget = 0
    /\ req = [t \in workers |-> IdleReq]
    /\ uploads = MaxUploads

NextSearch ==
    \/ \E file_paths \in IngestRequests, embOk \in BOOLEAN, ok \in BOOLEAN :
          AddFile(file_paths, embOk, ok)
    \/ \E query \in Prompts, top_k \in TopKs, min_score \in MinScores,
          embOk \in BOOLEAN, ok \in BOOLEAN :
          SearchCall(query, top_k, min_score, embOk, ok)

\* Files are added and the documents index is searched.
SpecSearch == InitSearch /\ [][NextSearch]_vars

\* /ask/ requests that a run with uploads handles.
MaxIngestAsks == 2

\* How many /add_data/ requests such a run may handle among them.
UploadCounts == {0, 1}

InitIngest ==
    /\ Startup
    /\ docVecs = {}
    /\ cacheIndex = cache_index_name
    /\ workers = {1}
    /\ budget = MaxIngestAsks
    /\ req = [t \in workers |-> IdleReq]
    /\ uploads \in UploadCounts

NextIngest ==
    \/ Next
    \/ \E file_paths \in FileRequests, embOk \in BOOLEAN, ok \in BOOLEAN :
          AddFile(file_paths, embOk, ok)

\* The one-worker server with /add_data/ requests among the /ask/ ones.
SpecIngest == InitIngest /\ [][NextIngest]_vars

----------------------------------------------------------------------------
(* The chunker on its own *)

\* The server with no request and nothing in its indexes.
AppAtRest ==
    /\ indexes = {documents_index_name, cache_index_name}
    /\ cacheIndex = cache_index_name
    /\ searchIndex = documents_index_name
    /\ cacheVecs = {}
    /\ docVecs = {}
    /\ similarity_threshold = DefaultThreshold
    /\ clock = 0
    /\ clearResult = NoClear
    /\ workers = {1}
    /\ budget = 0
    /\ req = [t \in workers |-> IdleReq]
    /\ uploads = 0
    /\ addResult = NoAdd
    /\ searchResult = NoSearch
    /\ statsResult = NoStats

InitChunker ==
    /\ AppAtRest
    /\ pinecone = {}
    /\ client_index = NoIndex
    /\ call = NoCall
    /\ \E f \in FileNames, t \in Texts, d \in Delimiters :
         chunking = [NoChunking EXCEPT !.pc = "text", !.file_name = f,
                                       !.text = t, !.delimiter = d]

\* chunker.chunk_by_chapter(text, delimiter)
ChunkText ==
    /\ chunking.pc = "text"
    /\ chunking' = [chunking EXCEPT
                       !.pc = "chunks",
                       !.chunks = chunk_by_chapter(chunking.text, chunking.delimiter)]
    /\ UNCHANGED <<appVars, clientVars, ingestVars, statsVars>>

\* add_file: the enumerate loop over the chunks.
BuildDocuments ==
    /\ chunking.pc = "chunks"
    /\ chunking' = [chunking EXCEPT
                       !.pc = "documents",
                       !.file_documents = FileDocuments(chunking.file_name,
                                                        <<chunking.file_name>>,
                                                        chunking.chunks)]
    /\ UNCHANGED <<appVars, clientVars, ingestVars, statsVars>>

NextChunker ==
    \/ ChunkText
    \/ BuildDocuments

\* One text chunked and turned into documents, for every text and delimiter.
SpecChunker == InitChunker /\ [][NextChunker]_vars

----------------------------------------------------------------------------
(* One PineconeClient and the backend *)

appVarsButClock == <<indexes, cacheVecs, docVecs, cacheIndex, searchIndex,
                     similarity_threshold, workers, budget, req, clearResult>>

\* A backend with no index, or with the documents index of an earlier run.
InitClient ==
    /\ AppAtRest
    /\ chunking = NoChunking
    /\ pinecone \in { {}, {[name |-> documents_index_name, ready |-> TRUE,
                           dimension |-> Dimension, vecs |-> {}]} }
    /\ client_index = NoIndex
    /\ call = NoCall

\* A call may start: none is in flight and the run has calls left.
MayCall == call.pc = "returned" /\ clock < MaxCalls

\* The call record of a call that returns ret at once.
Returned(op, index_name, vectors, ok, ret) ==
    [op |-> op, pc |-> "returned", at |-> clock + 1, index_name |-> index_name,
     vectors |-> vectors, vector_ids |-> <<>>, ok |-> ok, waited |-> 0, ret |-> ret]

\* create_index, the existence check: True for a name in use, False when
\* list_indexes raises, on to the creation otherwise.
CreateIndexCheck(index_name, ok) ==
    /\ MayCall
    /\ index_name \in IndexNames
    /\ clock' = clock + 1
    /\ IF ~ok
       THEN /\ call' = Returned("create_index", index_name, <<>>, ok, FALSE)
            /\ UNCHANGED client_index
       ELSE IF index_name \in list_indexes(pinecone)
            THEN /\ call' = Returned("create_index", index_name, <<>>, ok, TRUE)
                 /\ client_index' = index_name
            ELSE /\ call' = [Returned("create_index", index_name, <<>>, ok, FALSE)
                                EXCEPT !.pc = "create"]
                 /\ UNCHANGED client_index
    /\ UNCHANGED <<pinecone, chunkerVars, appVarsButClock, ingestVars,
                   statsVars>>

\* create_index, self.pc.create_index(...): an exception ends the call with False.
CreateIndexRequest(ok) ==
    /\ call.pc = "create"
    /\ LET r == BackendCreate(pinecone, call.index_name, Dimension)
       IN IF ~ok \/ r.raised
          THEN /\ call' = [call EXCEPT !.pc = "returned", !.ok = FALSE, !.ret = FALSE]
               /\ UNCHANGED pinecone
          ELSE /\ call' = [call EXCEPT !.pc = "poll"]
               /\ pinecone' = r.idxs
    /\ UNCHANGED <<client_index, clock, chunkerVars, appVarsButClock, ingestVars,
                   statsVars>>

\* create_index, one turn of `while not describe_index(...).status['ready']`:
\* the handle and True when ready, False when describe_index raises, a sleep
\* of one second otherwise.
CreateIndexPoll(ok) ==
    /\ call.pc = "poll"
    /\ IF ~ok
       THEN /\ call' = [call EXCEPT !.pc = "returned", !.ok = FALSE, !.ret = FALSE]
            /\ UNCHANGED client_index
       ELSE IF IndexNamed(pinecone, call.index_name).ready
            THEN /\ call' = [call EXCEPT !.pc = "returned", !.ret = TRUE]
                 /\ client_index' = call.index_name
            ELSE /\ call' = [call EXCEPT !.waited = Min(@ + 1, MaxWait)]
                 /\ UNCHANGED client_index
    /\ UNCHANGED <<pinecone, clock, chunkerVars, appVarsButClock, ingestVars,
                   statsVars>>

\* The backend finishes the initialisation of an index.
BackendReady(index_name) ==
    /\ \E i \in pinecone : i.name = index_name /\ ~i.ready
    /\ pinecone' = { IF i.name = index_name THEN [i EXCEPT !.ready = TRUE] ELSE i :
                        i \in pinecone }
    /\ UNCHANGED <<client_index, call, clock, chunkerVars, appVarsButClock, ingestVars,
                   statsVars>>

ConnectToIndex(index_name, ok) ==
    /\ MayCall
    /\ index_name \in IndexNames
    /\ clock' = clock + 1
    /\ LET r == connect_to_index(pinecone, client_index, index_name, ok)
       IN /\ call' = Returned("connect_to_index", index_name, <<>>, ok, r.ret)
          /\ client_index' = r.index
    /\ UNCHANGED <<pinecone, chunkerVars, appVarsButClock, ingestVars,
                   statsVars>>

UpsertVectors(vectors, ok) ==
    /\ MayCall
    /\ vectors \in Batches
    /\ clock' = clock + 1
    /\ LET r == upsert_vectors_list(pinecone, client_index, vectors, clock + 1, ok)
       IN /\ call' = Returned("upsert_vectors", client_index, vectors, ok, r.ret)
          /\ pinecone' = r.idxs
    /\ UNCHANGED <<client_index, chunkerVars, appVarsButClock, ingestVars,
                   statsVars>>

\* delete_vectors(vector_ids); delete_document(doc_id) is the call with the
\* one-element list.
DeleteVectors(vector_ids, ok) ==
    /\ MayCall
    /\ vector_ids \in IdLists
    /\ clock' = clock + 1
    /\ LET r == delete_vectors(pinecone, client_index, vector_ids, ok)
       IN /\ call' = [Returned("delete_vectors", client_index, <<>>, ok, r.ret)
                        EXCEPT !.vector_ids = vector_ids]
          /\ pinecone' = r.idxs
    /\ UNCHANGED <<client_index, chunkerVars, appVarsButClock, ingestVars,
                   statsVars>>

NextClient ==
    \/ \E index_name \in IndexNames, ok \in BOOLEAN : CreateIndexCheck(index_name, ok)
    \/ \E ok \in BOOLEAN : CreateIndexRequest(ok)
    \/ \E ok \in BOOLEAN : CreateIndexPoll(ok)
    \/ \E index_name \in IndexNames : BackendReady(index_name)
    \/ \E index_name \in IndexNames, ok \in BOOLEAN : ConnectToIndex(index_name, ok)
    \/ \E vectors \in Batches, ok \in BOOLEAN : UpsertVectors(vectors, ok)
    \/ \E vector_ids \in IdLists, ok \in BOOLEAN : DeleteVectors(vector_ids, ok)

\* A client that creates indexes, connects to them and upserts into them.
SpecClient == InitClient /\ [][NextClient]_vars

----------------------------------------------------------------------------
(* Properties *)

\* The request of thread t has just come back from get_cached_response.
LookedUp(t) == req[t].trace = <<"lookup">>

Hit(t) == req[t].cached_result # None

\* C1. Mode isolation: a hit of lookup(q, m) is built from an entry whose
\* stored mode is m; a top candidate stored with another mode gives a Miss,
\* whatever its score.
ModeIsolation ==
    \A t \in workers :
       LookedUp(t) =>
          /\ Hit(t) =>
                /\ Len(req[t].results) > 0
                /\ req[t].results[1].metadata.mode = req[t].mode
                /\ req[t].cached_result.response = req[t].results[1].metadata.response
          /\ (Len(req[t].results) > 0 /\ req[t].results[1].metadata.mode # req[t].mode)
                => ~Hit(t) /\ req[t].pc = "search"

\* C1 witness: the same query text was stored under another mode, the score
\* is 1.0 and the lookup is a Miss.
ModeIsolationWitness ==
    \E t \in workers :
       /\ LookedUp(t)
       /\ Len(req[t].results) > 0
       /\ req[t].results[1].score = 100
       /\ req[t].results[1].metadata.original_query = req[t].prompt
       /\ req[t].results[1].metadata.mode # req[t].mode
       /\ ~Hit(t)

\* C2. Idempotent store: a store that the index takes leaves exactly one
\* entry for its (query, mode), carrying its response, and when an entry for
\* the pair was there already the cache does not grow.
IdempotentStore ==
    [][\A t \in workers :
         (req[t].pc = "upsert" /\ req'[t].pc = "done" /\ req'[t].written) =>
            LET E == EntriesOf(cacheVecs', req[t].prompt, req[t].mode)
            IN /\ Cardinality(E) = 1
               /\ \A e \in E : e.metadata.response = req[t].llm_response
               /\ EntriesOf(cacheVecs, req[t].prompt, req[t].mode) # {}
                     => Cardinality(cacheVecs') = Cardinality(cacheVecs)]_vars

\* C2 witness: a second store for a pair has replaced the pair's entry.
IdempotentStoreWitness ==
    \E t \in workers :
       /\ req[t].pc = "done"
       /\ req[t].overwrote
       /\ \E e \in cacheVecs :
             /\ e.id = req[t].vector.id
             /\ e.metadata.response = req[t].llm_response
             /\ e.metadata.cached_at > 1

\* C3. A lookup is a hit exactly when the index returned a candidate whose
\* score is at least the threshold and whose stored mode is the asked mode.
LookupHitIff ==
    \A t \in workers :
       LookedUp(t) =>
          /\ Hit(t) <=> /\ Len(req[t].results) > 0
                        /\ req[t].results[1].score >= similarity_threshold
                        /\ req[t].results[1].metadata.mode = req[t].mode
          /\ Hit(t) => req[t].cached_result = HitOf(req[t].results[1])

\* C3 witness: a hit whose score is exactly the threshold.
LookupHitIffWitness ==
    \E t \in workers :
       /\ LookedUp(t)
       /\ Hit(t)
       /\ req[t].results[1].score = similarity_threshold

\* C4. Threshold monotonicity: on every cache content, for every query, mode
\* and ranking the index may return, a Miss under a threshold is a Miss under
\* every higher threshold.
ThresholdMonotone ==
    \A <<q, m>> \in Requests :
       \A ranking \in IndexQuery(cacheVecs, embed_text(q), CacheTopK) :
          \A t1, t2 \in Thresholds :
             (t1 <= t2 /\ get_cached_response(ranking, m, t1) = None)
                => get_cached_response(ranking, m, t2) = None

\* C4 witness: a cache content on which a lookup hits under one threshold and
\* misses under a higher one.
ThresholdMonotoneWitness ==
    \E <<q, m>> \in Requests :
       \E ranking \in IndexQuery(cacheVecs, embed_text(q), CacheTopK) :
          \E t1, t2 \in Thresholds :
             /\ t1 < t2
             /\ get_cached_response(ranking, m, t1) # None
             /\ get_cached_response(ranking, m, t2) = None

\* C5. store returns success only when the entry was written to the index.
StoreAckMeansWritten ==
    \A t \in workers : req[t].stored = "True" => req[t].written

\* C6. A search whose embedding or index query failed does not come back as
\* an empty result list.
SearchSurfacesFailure ==
    \A t \in workers :
       (req[t].pc = "generate" /\ req[t].searchErr # "none")
          => req[t].relevant_chunks # <<>>

\* C7. A lookup whose embedding or index query failed is not taken as a Miss.
LookupSurfacesFailure ==
    \A t \in workers :
       (LookedUp(t) /\ req[t].lookupErr # "none") => req[t].pc # "search"

\* C8. clear is a full flush: a clear that returned success left the cache
\* index existing, connected and empty, and a clear on a reachable backend
\* returns success.
ClearIsFullFlush ==
    clearResult.ret # "none" =>
       /\ clearResult.ret = "True" =>
             /\ cache_index_name \in indexes
             /\ cacheIndex = cache_index_name
             /\ cacheVecs = {}
       /\ clearResult.reachable => clearResult.ret = "True"

FullTrace == <<"lookup", "search", "generate", "store">>

\* C9. ask is cache-first: on a hit it returns the cached response with
\* cached = true and calls nothing else; on a Miss it calls search, then the
\* generator, then store once with (query, mode, context, answer), and returns
\* the answer with cached = false.
AskCacheFirst ==
    \A t \in workers :
       LET r == req[t]
       IN /\ Len(r.trace) <= Len(FullTrace)
          /\ r.trace = SubSeq(FullTrace, 1, Len(r.trace))
          /\ Hit(t) =>
                /\ r.pc = "done"
                /\ r.trace = <<"lookup">>
                /\ r.reply.status = "ok" /\ r.reply.cached
                /\ r.reply.answer = r.cached_result.response
                /\ r.stored = "none" /\ r.vector = None /\ ~r.written
          /\ (r.pc = "done" /\ ~Hit(t)) =>
                \/ r.reply.status = "error" /\ r.trace = <<"lookup", "search", "generate">>
                                            /\ r.stored = "none" /\ ~r.written
                \/ /\ r.reply.status = "ok" /\ ~r.reply.cached
                   /\ r.trace = FullTrace
                   /\ r.reply.answer = r.llm_response
                   /\ r.stored # "none"
                   /\ r.vector # None =>
                         r.vector = CacheVector(r.prompt, r.mode, r.context, r.llm_response,
                                                r.vector.metadata.cached_at)
          /\ r.written => r.pc = "done" /\ r.trace = FullTrace

\* C9 witness: a request answered from the cache, which an earlier request
\* filled after a Miss.
AskCacheFirstWitness ==
    \E t \in workers :
       /\ req[t].pc = "done"
       /\ Hit(t)
       /\ req[t].reply.cached
       /\ req[t].reply.answer \in Responses
       /\ \E e \in cacheVecs : e.metadata.response = req[t].reply.answer

\* The entry e holds what the store of request r wrote.
WrittenBy(e, r) ==
    /\ e.id = r.vector.id
    /\ e.values = r.vector.values
    /\ \A k \in DOMAIN r.vector.metadata : e.metadata[k] = r.vector.metadata[k]

\* C10. Two concurrent stores that the index took: for the same (query, mode)
\* the cache holds exactly one entry for the pair and all its fields come from
\* one of the two calls; for different pairs each pair has its entry.
ConcurrentStores ==
    \A t, u \in workers :
       (t # u /\ req[t].pc = "done" /\ req[u].pc = "done"
             /\ req[t].written /\ req[u].written) =>
          LET Et == EntriesOf(cacheVecs, req[t].prompt, req[t].mode)
              Eu == EntriesOf(cacheVecs, req[u].prompt, req[u].mode)
          IN IF <<req[t].prompt, req[t].mode>> = <<req[u].prompt, req[u].mode>>
             THEN /\ Cardinality(Et) = 1
                  /\ \A e \in Et : WrittenBy(e, req[t]) \/ WrittenBy(e, req[u])
             ELSE Et # {} /\ Eu # {}

----------------------------------------------------------------------------
(* Properties of the chunker *)

NonBlank(segment) == strip(segment) # <<>>

\* The segments of text.split(delimiter) that are not blank, in order.
NonBlankSegments(text, delimiter) == SelectSeq(split(text, delimiter), NonBlank)

\* A chunk without the delimiter it starts with.
RemoveLeading(chunk, delimiter) == SubSeq(chunk, Len(delimiter) + 1, Len(chunk))

\* The delimiter occurs in the text.
Occurs(text, delimiter) ==
    \E i \in 1..(Len(text) - Len(delimiter) + 1) :
        SubSeq(text, i, i + Len(delimiter) - 1) = delimiter

Chunked == chunking.pc \in {"chunks", "documents"}

\* C15: the chunks without their leading delimiter are the trimmed non-blank
\* segments of text.split(delimiter) in order, and "Chapter 1 intro Chapter 2
\* body" with delimiter "Chapter" gives the chunks "Chapter 1 intro" and
\* "Chapter 2 body".
ChunkerNonLoss ==
    Chunked =>
        LET segments == NonBlankSegments(chunking.text, chunking.delimiter)
            chunks == chunking.chunks
        IN /\ Len(chunks) = Len(segments)
           /\ \A i \in 1..Len(chunks) :
                RemoveLeading(chunks[i], chunking.delimiter) = strip(segments[i])
           /\ (chunking.text = ScenarioText /\ chunking.delimiter = ChapterDelimiter)
                => [i \in 1..Len(chunks) |-> Str(chunks[i])]
                     = <<"Chapter 1 intro", "Chapter 2 body">>

\* C16: blank segments give no chunk and take no index: the documents of a
\* text carry the indexes 0..n-1 in source order, n the number of non-blank
\* segments, document i being the chunk of the i-th non-blank segment.
ChunkerIndexing ==
    chunking.pc = "documents" =>
        LET segments == NonBlankSegments(chunking.text, chunking.delimiter)
            docs == chunking.file_documents
        IN /\ Len(docs) = Len(segments)
           /\ \A i \in 1..Len(docs) :
                /\ docs[i].metadata.chunk_index = i - 1
                /\ docs[i].id = chunking.file_name \o "_" \o ToString(i - 1)
                /\ docs[i].text = Str(chunking.delimiter \o strip(segments[i]))

\* A text with a blank segment between two non-blank ones has become two documents.
ChunkerIndexingWitness ==
    /\ chunking.pc = "documents"
    /\ Len(chunking.file_documents) = 2
    /\ LET chapters == split(chunking.text, chunking.delimiter)
       IN \E i, j, k \in 1..Len(chapters) :
            i < j /\ j < k /\ NonBlank(chapters[i]) /\ ~NonBlank(chapters[j])
                  /\ NonBlank(chapters[k])

\* C17: a text in which the delimiter does not occur gives exactly one chunk,
\* of index 0, whose text is the whole input text.
ChunkerNoDelimiter ==
    (chunking.pc = "documents" /\ ~Occurs(chunking.text, chunking.delimiter)) =>
        /\ Len(chunking.file_documents) = 1
        /\ chunking.file_documents[1].metadata.chunk_index = 0
        /\ chunking.chunks[1] = chunking.text

----------------------------------------------------------------------------
(* Properties of PineconeClient *)

\* The step is the return of a new call of op.
Returns(op) == call'.op = op /\ call'.pc = "returned" /\ call'.at # call.at

\* Some vector of the list has not the dimension of the connected index.
Mismatch(idxs, handle, vectors) ==
    /\ handle \in list_indexes(idxs)
    /\ \E i \in 1..Len(vectors) :
         Len(vectors[i].values) # IndexNamed(idxs, handle).dimension

Timeouts == {1, 2}

\* C18: create_index stops within the caller's bound: whatever bound T the
\* caller has, the call is not still polling after T seconds of waiting.
CreateIndexTimeout ==
    \A T \in Timeouts :
        ~(call.op = "create_index" /\ call.pc = "poll" /\ call.waited >= T)

\* C19: create_index for a name in use succeeds, creates no second index and
\* leaves the vectors as they are; there is at most one index per name; and
\* create_index returns True only when the index is ready.
CreateIndexIdempotent ==
    /\ [][ (Returns("create_index") /\ call'.ok
              /\ call'.index_name \in list_indexes(pinecone))
             => (call'.ret = TRUE /\ pinecone' = pinecone) ]_vars
    /\ [](\A n \in IndexNames : Cardinality({ i \in pinecone : i.name = n }) <= 1)
    /\ []((call.op = "create_index" /\ call.pc = "returned" /\ call.ret)
             => IndexNamed(pinecone, call.index_name).ready)

\* C20: connect_to_index returns False for a name the backend has no index
\* of and, when the backend answers, True for a name it has one of; a second
\* connect after a first changes nothing more; and no connect creates,
\* deletes or changes an index.
ConnectContract ==
    [][ Returns("connect_to_index") =>
          /\ pinecone' = pinecone
          /\ call'.index_name \notin list_indexes(pinecone)
               => (call'.ret = FALSE /\ client_index' = client_index)
          /\ (call'.index_name \in list_indexes(pinecone) /\ call'.ok)
               => (call'.ret = TRUE /\ client_index' = call'.index_name)
          /\ (call.op = "connect_to_index" /\ call.index_name = call'.index_name
                /\ call.ok = call'.ok)
               => (call'.ret = call.ret /\ client_index' = client_index) ]_vars

\* The third call of a run was a connect that succeeded on an index that
\* holds a vector.
ConnectContractWitness ==
    /\ call.op = "connect_to_index" /\ call.ret /\ call.at = 3
    /\ client_index = call.index_name
    /\ IndexNamed(pinecone, client_index).vecs # {}

----------------------------------------------------------------------------
(* Properties of retrieval and ingestion *)

\* The metadata is that of a document chunk (add_file gives it a chunk_index).
IsChunk(metadata) == "chunk_index" \in DOMAIN metadata

\* The metadata is that of a cache entry (store_response gives it a query_hash).
IsCacheEntry(metadata) == "query_hash" \in DOMAIN metadata

\* C12: search filters by min_score and nothing else: every result it
\* returns has a score of at least min_score, and every result the index
\* returned with such a score is among them.
SearchFiltersByMinScore ==
    searchResult.called =>
        /\ \A i \in 1..Len(searchResult.results) :
             searchResult.results[i].score >= searchResult.min_score
        /\ \A j \in 1..Len(searchResult.index_results) :
             searchResult.index_results[j].score >= searchResult.min_score
               => \E i \in 1..Len(searchResult.results) :
                     /\ searchResult.results[i].id = searchResult.index_results[j].id
                     /\ searchResult.results[i].score = searchResult.index_results[j].score

\* A search over three documents has kept a result whose score is min_score
\* itself and dropped one below it.
SearchFiltersByMinScoreWitness ==
    /\ searchResult.called
    /\ Len(searchResult.index_results) = 3
    /\ \E i \in 1..Len(searchResult.results) :
         searchResult.results[i].score = searchResult.min_score
    /\ Len(searchResult.results) < Len(searchResult.index_results)

\* The ids of a is a subsequence of the ids of b.
RECURSIVE IsSubsequence(_, _)
IsSubsequence(a, b) ==
    IF a = <<>> THEN TRUE
    ELSE IF b = <<>> THEN FALSE
    ELSE IF Head(a).id = Head(b).id /\ Head(a).score = Head(b).score
         THEN IsSubsequence(Tail(a), Tail(b))
         ELSE IsSubsequence(a, Tail(b))

NonIncreasing(results) ==
    \A i, j \in 1..Len(results) : i < j => results[i].score >= results[j].score

\* C13: search does not reorder: what it returns is a subsequence of the
\* index's ranked list, with no id twice, of at most top_k results, in
\* non-increasing order of score when the index's list is.
SearchKeepsOrder ==
    searchResult.called =>
        /\ IsSubsequence(searchResult.results, searchResult.index_results)
        /\ \A i, j \in 1..Len(searchResult.results) :
             i # j => searchResult.results[i].id # searchResult.results[j].id
        /\ Len(searchResult.results) <= searchResult.top_k
        /\ NonIncreasing(searchResult.index_results) => NonIncreasing(searchResult.results)

\* A search has returned two results of different scores after dropping a
\* third.
SearchKeepsOrderWitness ==
    /\ searchResult.called
    /\ Len(searchResult.index_results) = 3
    /\ Len(searchResult.results) = 2
    /\ searchResult.results[1].score > searchResult.results[2].score

\* C14: no cache lookup returns a document chunk, no retrieval returns a
\* cache entry, and no vector id is in both the documents index and the
\* cache index.
OwnershipIsolation ==
    /\ \A t \in workers : \A i \in 1..Len(req[t].results) :
         ~IsChunk(req[t].results[i].metadata)
    /\ \A t \in workers : \A i \in 1..Len(req[t].relevant_chunks) :
         ~IsCacheEntry(req[t].relevant_chunks[i].metadata)
    /\ { v.id : v \in cacheVecs } \cap { v.id : v \in docVecs } = {}

\* A lookup has returned a cache entry while the documents index holds the
\* chunks of an upload.
OwnershipIsolationWitness ==
    /\ addResult.status = "ok" /\ addResult.written
    /\ docVecs # {}
    /\ \E t \in workers : LookedUp(t) /\ req[t].results # <<>>

----------------------------------------------------------------------------
(* Properties of the cache over requests *)

\* C21: on a backend that can be reached, /cache/stats returns the number
\* of entries the cache index holds, with the dimension, the metric and the
\* configured threshold.
CacheStatsLive ==
    (statsResult.ret # "none" /\ statsResult.reachable) =>
        /\ statsResult.ret = "ok"
        /\ Get(statsResult, "total_vectors", 0 - 1) = Cardinality(cacheVecs)
        /\ Get(statsResult, "similarity_threshold", 0 - 1) = similarity_threshold

\* C22: a hit carries the data of the entry the index ranked first: the
\* response, the original query and the cached-at time are those the index
\* holds under that entry's id (what the last store to the id wrote), and
\* the similarity score is the entry's score; the reply of /ask/ carries the
\* same response, query and score.
HitCarriesEntry ==
    \A t \in workers :
        (LookedUp(t) /\ Hit(t)) =>
            LET top == req[t].results[1]
                hit == req[t].cached_result
            IN /\ \E e \in cacheVecs :
                    /\ e.id = top.id
                    /\ hit.response = e.metadata.response
                    /\ hit.original_query = e.metadata.original_query
                    /\ hit.cached_at = e.metadata.cached_at
                    /\ hit.similarity_score = CosineScore(e.values, embed_text(req[t].prompt))
               /\ hit.similarity_score = top.score
               /\ req[t].reply.answer = hit.response
               /\ req[t].reply.original_query = hit.original_query
               /\ req[t].reply.similarity_score = top.score

\* A request for "a_quiz" has been answered from the entry stored for "a",
\* whose response differs from its context.
HitCarriesEntryWitness ==
    \E t \in workers :
        /\ LookedUp(t) /\ Hit(t)
        /\ req[t].prompt = "a_quiz"
        /\ req[t].cached_result.original_query = "a"
        /\ req[t].cached_result.response # req[t].cached_result.context

\* The generation of the request of thread t has failed: return_response was
\* called and left no answer.
GenerationFailed(t) ==
    /\ \E i \in 1..Len(req[t].trace) : req[t].trace[i] = "generate"
    /\ req[t].llm_response = ""

\* C23: when the generation fails, the failure ends the request: the caller
\* gets the error and no answer, store_response is not called, and the cache
\* holds no entry of this request.
GenerationFailureEndsAsk ==
    \A t \in workers :
        GenerationFailed(t) =>
            /\ req[t].pc = "done"
            /\ req[t].reply = [status |-> "error"]
            /\ req[t].trace = <<"lookup", "search", "generate">>
            /\ req[t].stored = "none" /\ ~req[t].written
            /\ \A e \in cacheVecs : e.metadata.cached_at # clock

\* The generation of the second request has failed while the cache holds the
\* entry of the first.
GenerationFailureEndsAskWitness ==
    \E t \in workers :
        /\ GenerationFailed(t)
        /\ req[t].reply = [status |-> "error"]
        /\ cacheVecs # {}

\* C27: after a store for (q, m) that the index took, a lookup of (q, m)
\* that reaches the index is a hit with the stored response, also when the
\* cache holds an entry for the same text under another mode.
StoreThenLookup ==
    \A t \in workers :
        (LookedUp(t) /\ req[t].lookupErr = "none"
           /\ EntriesOf(cacheVecs, req[t].prompt, req[t].mode) # {}) =>
            /\ Hit(t)
            /\ \E e \in EntriesOf(cacheVecs, req[t].prompt, req[t].mode) :
                 req[t].cached_result.response = e.metadata.response

\* C28: two different (query, mode) pairs never have the same cache id, so
\* a store for one pair leaves the entries of every other pair in place.
CacheIdsSeparateKeys ==
    /\ [](\A p1, p2 \in Requests :
            p1 # p2 => _generate_cache_id(p1[1], p1[2]) # _generate_cache_id(p2[1], p2[2]))
    /\ [][ \A t \in workers :
             (req[t].pc = "upsert" /\ req'[t].pc = "done") =>
                \A e \in cacheVecs :
                    <<e.metadata.original_query, e.metadata.mode>>
                        # <<req[t].prompt, req[t].mode>>
                      => e \in cacheVecs' ]_vars

\* C29: an answer is cached only when the retrieval of its request
\* succeeded: no entry is written for a request whose search failed.
CacheOnlyAfterRetrieval ==
    \A t \in workers : req[t].written => req[t].searchErr = "none"

\* The vectors of the documents index that the last /add_data/ wrote.
WrittenByAdd == { v \in docVecs : v.metadata.timestamp = clock }

\* C24: /add_data/ reports what was indexed: when it reports success the
\* upsert of the chunks succeeded, and the chunk count it returns is the
\* number of chunks written to the documents index.
IngestReportsIndexed ==
    addResult.status = "ok" =>
        /\ addResult.written
        /\ addResult.total_chunks = Cardinality(WrittenByAdd)

\* C30: chunk ids are unique per document and chunk: an /add_data/ request
\* never overwrites a chunk of another file, that is, the vector it leaves
\* under an id that was stored before is a chunk of the same file.
ChunkIdsUnique ==
    [][ \A v \in docVecs : \A w \in docVecs' :
           w.id = v.id => w.metadata.file_path = v.metadata.file_path ]_vars

\* The metadata a caller supplied with a vector, none being the empty one.
Supplied(vector) ==
    IF "metadata" \in DOMAIN vector THEN vector.metadata ELSE [k \in {} |-> ""]

\* The index holds the vector as supplied, with a timestamp: its own when
\* it brought one, the time of the call otherwise.
StoredAsSupplied(vecs, vector, now) ==
    \E w \in vecs :
        /\ w.id = vector.id
        /\ w.values = vector.values
        /\ DOMAIN w.metadata = DOMAIN Supplied(vector) \cup {"timestamp"}
        /\ \A k \in DOMAIN Supplied(vector) : w.metadata[k] = Supplied(vector)[k]
        /\ "timestamp" \notin DOMAIN Supplied(vector) => w.metadata.timestamp = now

\* C25: after a successful upsert every vector of the list is stored with a
\* timestamp in its metadata: the supplied one when there is one, the time
\* of the call otherwise; the id, the values and every other supplied
\* metadata field are stored as supplied.
UpsertStampsWhenAbsent ==
    [][ (Returns("upsert_vectors") /\ call'.ret) =>
           \A i \in 1..Len(call'.vectors) :
              StoredAsSupplied(IndexNamed(pinecone', client_index).vecs,
                               call'.vectors[i], clock') ]_vars

\* A list of a vector with a timestamp of its own and a vector without
\* metadata has been stored.
UpsertStampsWhenAbsentWitness ==
    /\ call.op = "upsert_vectors" /\ call.ret
    /\ Len(call.vectors) = 2
    /\ "timestamp" \in DOMAIN Supplied(call.vectors[1])
    /\ "metadata" \notin DOMAIN call.vectors[2]
    /\ Cardinality(IndexNamed(pinecone, client_index).vecs) = 2

\* The backend carries out a request on the connected index.
Serving(idxs, handle) ==
    /\ handle \in list_indexes(idxs)
    /\ IndexNamed(idxs, handle).ready

\* C26: a delete that the backend carries out succeeds, removes from the
\* namespace exactly the vectors of the ids given and leaves every other
\* vector and every other index as they were; when the namespace holds none
\* of the ids, nothing changes.
DeleteRemovesExactly ==
    [][ (Returns("delete_vectors") /\ call'.ok /\ Serving(pinecone, client_index)) =>
           LET before == IndexNamed(pinecone, client_index).vecs
               ids == Range(call'.vector_ids)
           IN /\ call'.ret
              /\ pinecone' = WithVecs(pinecone, client_index,
                                      { v \in before : v.id \notin ids })
              /\ (\A v \in before : v.id \notin ids) => pinecone' = pinecone ]_vars

\* A delete of an id the namespace does not hold has returned True, and the
\* vector the namespace holds is still there.
DeleteRemovesExactlyWitness ==
    /\ call.op = "delete_vectors" /\ call.ret
    /\ call.vector_ids = <<"v2">>
    /\ Serving(pinecone, client_index)
    /\ { v.id : v \in IndexNamed(pinecone, client_index).vecs } = {"v1"}

====
